---------------------------- MODULE Spec2Model ----------------------------
(***************************************************************************)
(* Incident correlation engine of the Reliability Studio backend.          *)
(*                                                                         *)
(* BuildIncident(service) obtains one raw payload per telemetry backend    *)
(* (Loki logs, Prometheus metrics, Tempo traces, Kubernetes pods), runs    *)
(* the four analyzers over them in the order logs, metrics, traces, k8s,   *)
(* and assembles an Incident.  The analyzers traverse the decoded JSON     *)
(* with unchecked type assertions, so a payload of an unexpected shape     *)
(* makes the goroutine panic; the model records that as pc = "panic",      *)
(* with the locals of BuildIncident unwound and only the payload the        *)
(* analyzer panicked on left.  BuildIncident as written passes no payload  *)
(* to the analyzers (AnalyzeLogs takes (service, raw)); the model takes    *)
(* each raw argument from the matching client of package services.         *)
(*                                                                         *)
(* Conventions of the model:                                               *)
(*  - a Go string that the code inspects (log line, sample value, event    *)
(*    message) is a sequence of one-character strings;                     *)
(*  - a timestamp string is represented by the instant it denotes, a       *)
(*    natural number in 1..MaxTime;                                        *)
(*  - a float64 percentage is an integer number of hundredths              *)
(*    (1.0 is 100, 1.01 is 101, 5.0 is 500, 6.2 is 620);                   *)
(*  - a decoded JSON document is a record whose "shape" field says which   *)
(*    of the keys and types the analyzers assert are present.              *)
(*                                                                         *)
(* The variable hook holds the state of the dashboard hook                 *)
(* useAutoDeployWebSocket, which has a specification of its own.           *)
(***************************************************************************)
EXTENDS Integers, Sequences, FiniteSets, TLC

VARIABLES
    pc,          \* position of the BuildIncident invocation
    service,     \* argument of BuildIncident
    down,        \* backends that cannot be reached during this invocation
    rawLogs,     \* string returned by QueryLogs, decoded
    rawMetrics,  \* string returned by QueryMetrics, decoded
    rawTraces,   \* string returned by GetTraces, decoded
    rawK8s,      \* string returned by the cluster client, decoded
    logs,        \* analysis.LogResult
    metrics,     \* analysis.MetricResult
    traces,      \* analysis.TraceResult
    k8s,         \* analysis.K8sResult
    incident,    \* value returned by BuildIncident
    sevIn,       \* Impact handed to the classifier on its own
    sevOut,      \* verdict returned for sevIn: calculateSeverity, or CalculateSLO
    hook         \* refs and state of one useAutoDeployWebSocket instance

vars == <<pc, service, down, rawLogs, rawMetrics, rawTraces, rawK8s,
          logs, metrics, traces, k8s, incident, sevIn, sevOut, hook>>

---------------------------------------------------------------------------
(* Bounds of the exploration *)

MaxItems == 4       \* log lines + metric series + traces + pods per invocation
MaxLogLines == 2    \* log lines per log payload
MaxTime == 2        \* distinct instants a timestamp can denote
MaxErrorRate == 640 \* largest error rate handed to the classifier (hundredths)
MaxMessages == 2    \* messages one hook instance receives
MaxBadPods == 5     \* largest pod count handed to the classifier

Times == 1..MaxTime
Services == {"checkout", "cart"}
Sources == {"logs", "metrics", "traces", "k8s"}

---------------------------------------------------------------------------
(* Strings *)

UpperCase == <<"A","B","C","D","E","F","G","H","I","J","K","L","M",
               "N","O","P","Q","R","S","T","U","V","W","X","Y","Z">>
LowerCase == <<"a","b","c","d","e","f","g","h","i","j","k","l","m",
               "n","o","p","q","r","s","t","u","v","w","x","y","z">>

ToLowerChar(c) ==
    IF \E i \in 1..26 : UpperCase[i] = c
    THEN LowerCase[CHOOSE i \in 1..26 : UpperCase[i] = c]
    ELSE c

ToLower(s) == [i \in 1..Len(s) |-> ToLowerChar(s[i])]

Contains(s, sub) ==
    \E i \in 0..(Len(s) - Len(sub)) : SubSeq(s, i + 1, i + Len(sub)) = sub

ErrorMarker == <<"e","r","r","o","r">>

MsgInfo == <<"i","n","f","o"," ","s","t","a","r","t","u","p">>
MsgError == <<"e","r","r","o","r"," ","d","b"," ","t","i","m","e","o","u","t">>
MsgMixed == <<"d","b"," ","E","r","r","O","R">>
LogMessages == {MsgInfo, MsgError, MsgMixed}

TraceFailureMsg == <<"T","r","a","c","e"," ","f","a","i","l","u","r","e">>
PodFailedMsg == <<"P","o","d"," ","f","a","i","l","e","d">>

Sample05 == <<"0",".","5">>
Sample62 == <<"6",".","2">>
MetricSamples == {Sample05, Sample62}

Digits == <<"0","1","2","3","4","5","6","7","8","9">>
DigitVal(c) == (CHOOSE i \in 1..10 : Digits[i] = c) - 1

RECURSIVE DigitsVal(_)
DigitsVal(s) ==
    IF s = <<>> THEN 0
    ELSE 10 * DigitsVal(SubSeq(s, 1, Len(s) - 1)) + DigitVal(s[Len(s)])

\* decimal text with at most two fraction digits, as hundredths
parseFloat(s) ==
    IF \E i \in 1..Len(s) : s[i] = "."
    THEN LET dot == CHOOSE i \in 1..Len(s) : s[i] = "."
             frac == SubSeq(s, dot + 1, Len(s))
         IN 100 * DigitsVal(SubSeq(s, 1, dot - 1))
            + (IF Len(frac) = 0 THEN 0
               ELSE IF Len(frac) = 1 THEN 10 * DigitsVal(frac)
               ELSE DigitsVal(SubSeq(frac, 1, 2)))
    ELSE 100 * DigitsVal(s)

---------------------------------------------------------------------------
(* Payloads the backends can return *)

SeqsUpTo(S, n) == UNION {[1..k -> S] : k \in 0..n}

\* one [timestamp, line] pair of a Loki stream
GoodLines == [shape : {"ok"}, ts : Times, msg : LogMessages]
BadLines == {[shape |-> "msg_not_string", ts |-> 1, msg |-> <<>>]}
Lines == GoodLines \cup BadLines

\* streams holding exactly m lines (Loki returns no stream without values);
\* a stream object without the key values counts as one line
StreamsOfSize(m) ==
    {[shape |-> "ok", values |-> v] : v \in [1..m -> Lines]}
    \cup (IF m = 1 THEN {[shape |-> "no_values", values |-> <<>>]} ELSE {})

RECURSIVE StreamSeqs(_)
\* sequences of streams holding exactly n lines together
StreamSeqs(n) ==
    IF n = 0 THEN {<<>>}
    ELSE UNION {{<<s>> \o rest : s \in StreamsOfSize(m),
                                 rest \in StreamSeqs(n - m)} : m \in 1..n}

TopFailures == {"not_json", "no_key"}

NoPayloadLogs == [shape |-> "none", streams |-> <<>>]
ErrorTextLogs == [shape |-> "error_text", streams |-> <<>>]
LogPayloads(n) ==
    {[shape |-> "ok", streams |-> s] :
        s \in UNION {StreamSeqs(k) :
                        k \in 0..(IF n < MaxLogLines THEN n ELSE MaxLogLines)}}
    \cup {[shape |-> f, streams |-> <<>>] : f \in TopFailures}

Series == [shape : {"ok"}, sample : MetricSamples]
          \cup {[shape |-> "no_value", sample |-> <<>>]}
NoPayloadMetrics == [shape |-> "none", result |-> <<>>]
ErrorTextMetrics == [shape |-> "error_text", result |-> <<>>]
MetricPayloads(n) ==
    {[shape |-> "ok", result |-> r] : r \in SeqsUpTo(Series, n)}
    \cup {[shape |-> f, result |-> <<>>] : f \in TopFailures}

TraceStatuses == {"ok", "error"}
\* the start time of a trace matters only when the trace failed
TraceItems == [shape : {"ok"}, status : {"ok"}, time : {1}]
              \cup [shape : {"ok"}, status : TraceStatuses \ {"ok"}, time : Times]
              \cup {[shape |-> "no_status", status |-> "", time |-> 1]}
NoPayloadTraces == [shape |-> "none", traces |-> <<>>]
ErrorTextTraces == [shape |-> "error_text", traces |-> <<>>]
TracePayloads(n) ==
    {[shape |-> "ok", traces |-> t] : t \in SeqsUpTo(TraceItems, n)}
    \cup {[shape |-> f, traces |-> <<>>] : f \in TopFailures}

PodPhases == {"Running", "Failed"}
\* the start time of a pod is read only when the pod failed
Pods == [shape : {"ok"}, phase : PodPhases \ {"Failed"}, startTime : {1}]
        \cup [shape : {"ok"}, phase : {"Failed"}, startTime : Times]
        \cup {[shape |-> "no_phase", phase |-> "", startTime |-> 1]}
NoPayloadK8s == [shape |-> "none", items |-> <<>>]
ErrorTextK8s == [shape |-> "error_text", items |-> <<>>]
K8sPayloads(n) ==
    {[shape |-> "ok", items |-> p] : p \in SeqsUpTo(Pods, n)}
    \cup {[shape |-> f, items |-> <<>>] : f \in TopFailures}

RECURSIVE SumLen(_)
SumLen(streams) ==
    IF streams = <<>> THEN 0
    ELSE (IF Head(streams).shape = "ok" THEN Len(Head(streams).values) ELSE 1)
         + SumLen(Tail(streams))

\* telemetry items received so far in this invocation
ItemsUsed ==
    SumLen(rawLogs.streams) + Len(rawMetrics.result)
    + Len(rawTraces.traces) + Len(rawK8s.items)

Budget == MaxItems - ItemsUsed

---------------------------------------------------------------------------
(* analysis: the four analyzers *)

ZeroLogResult == [RootCause |-> <<>>, ErrorCount |-> 0, Events |-> <<>>]
ZeroMetricResult == [ErrorRate |-> 0, Latency |-> 0]
ZeroTraceResult == [Failures |-> 0, Events |-> <<>>]
ZeroK8sResult == [BadPods |-> 0, Events |-> <<>>]

\* json.Unmarshal into map[string]any followed by the asserted lookups of
\* the top-level keys: anything but the expected shape panics
TopLevelPanics(raw) == raw.shape # "ok"

\* variant: the marker is matched without lowering the line
IsErrorLineCaseSensitive(msg) == Contains(msg, ErrorMarker)

\* strings.Contains(strings.ToLower(msg), "error")
IsErrorLine(msg) == Contains(ToLower(msg), ErrorMarker)

\* variant: every matching line replaces the root cause
KeepLastRootCause(rootCause, msg) == msg

\* if rootCause == "" { rootCause = msg }
KeepFirstRootCause(rootCause, msg) == IF rootCause = <<>> THEN msg ELSE rootCause

RECURSIVE ValuesLoopCountsEveryLine(_, _, _)
\* variant: errorCount is incremented outside the marker test
ValuesLoopCountsEveryLine(values, j, acc) ==
    IF acc.panicked \/ j > Len(values) THEN acc
    ELSE LET v == values[j] IN
         IF v.shape # "ok" THEN [acc EXCEPT !.panicked = TRUE]
         ELSE ValuesLoopCountsEveryLine(values, j + 1,
                [panicked |-> FALSE,
                 Events |-> Append(acc.Events, [Time |-> v.ts, Message |-> v.msg]),
                 ErrorCount |-> acc.ErrorCount + 1,
                 RootCause |-> IF IsErrorLine(v.msg)
                               THEN KeepFirstRootCause(acc.RootCause, v.msg)
                               ELSE acc.RootCause])

RECURSIVE ValuesLoopMatchingOnly(_, _, _)
\* variant: only the lines that match the marker give an event
ValuesLoopMatchingOnly(values, j, acc) ==
    IF acc.panicked \/ j > Len(values) THEN acc
    ELSE LET v == values[j] IN
         IF v.shape # "ok" THEN [acc EXCEPT !.panicked = TRUE]
         ELSE ValuesLoopMatchingOnly(values, j + 1,
                [panicked |-> FALSE,
                 Events |-> IF IsErrorLine(v.msg)
                            THEN Append(acc.Events,
                                        [Time |-> v.ts, Message |-> v.msg])
                            ELSE acc.Events,
                 ErrorCount |-> IF IsErrorLine(v.msg) THEN acc.ErrorCount + 1
                                ELSE acc.ErrorCount,
                 RootCause |-> IF IsErrorLine(v.msg)
                               THEN KeepFirstRootCause(acc.RootCause, v.msg)
                               ELSE acc.RootCause])

RECURSIVE ValuesLoop(_, _, _)
\* for _, v := range values
ValuesLoop(values, j, acc) ==
    IF acc.panicked \/ j > Len(values) THEN acc
    ELSE LET v == values[j] IN
         IF v.shape # "ok" THEN [acc EXCEPT !.panicked = TRUE]
         ELSE ValuesLoop(values, j + 1,
                [panicked |-> FALSE,
                 Events |-> Append(acc.Events, [Time |-> v.ts, Message |-> v.msg]),
                 ErrorCount |-> IF IsErrorLine(v.msg) THEN acc.ErrorCount + 1
                                ELSE acc.ErrorCount,
                 RootCause |-> IF IsErrorLine(v.msg)
                               THEN KeepFirstRootCause(acc.RootCause, v.msg)
                               ELSE acc.RootCause])

RECURSIVE StreamsLoop(_, _, _)
\* for _, s := range streams
StreamsLoop(streams, i, acc) ==
    IF acc.panicked \/ i > Len(streams) THEN acc
    ELSE IF streams[i].shape # "ok" THEN [acc EXCEPT !.panicked = TRUE]
    ELSE StreamsLoop(streams, i + 1, ValuesLoop(streams[i].values, 1, acc))

AnalyzeLogs(svc, raw) ==
    IF TopLevelPanics(raw) THEN [panicked |-> TRUE, result |-> ZeroLogResult]
    ELSE LET acc == StreamsLoop(raw.streams, 1,
                        [panicked |-> FALSE, Events |-> <<>>,
                         ErrorCount |-> 0, RootCause |-> <<>>])
         IN [panicked |-> acc.panicked,
             result |-> [RootCause |-> acc.RootCause,
                         ErrorCount |-> acc.ErrorCount,
                         Events |-> acc.Events]]

\* variant: the error rate is derived from the sample
AnalyzeMetricsDerivedRate(raw) ==
    IF TopLevelPanics(raw) THEN [panicked |-> TRUE, result |-> ZeroMetricResult]
    ELSE IF Len(raw.result) = 0 THEN [panicked |-> FALSE, result |-> ZeroMetricResult]
    ELSE IF raw.result[1].shape # "ok"
         THEN [panicked |-> TRUE, result |-> ZeroMetricResult]
    ELSE [panicked |-> FALSE,
          result |-> [ErrorRate |-> parseFloat(raw.result[1].sample),
                      Latency |-> parseFloat(raw.result[1].sample)]]

\* variant: the sample is taken from the last series of the vector
AnalyzeMetricsLastSeries(raw) ==
    IF TopLevelPanics(raw) THEN [panicked |-> TRUE, result |-> ZeroMetricResult]
    ELSE IF Len(raw.result) = 0 THEN [panicked |-> FALSE, result |-> ZeroMetricResult]
    ELSE IF raw.result[Len(raw.result)].shape # "ok"
         THEN [panicked |-> TRUE, result |-> ZeroMetricResult]
    ELSE [panicked |-> FALSE,
          result |-> [ErrorRate |-> 0,
                      Latency |-> parseFloat(raw.result[Len(raw.result)].sample)]]

AnalyzeMetrics(raw) ==
    IF TopLevelPanics(raw) THEN [panicked |-> TRUE, result |-> ZeroMetricResult]
    ELSE IF Len(raw.result) = 0 THEN [panicked |-> FALSE, result |-> ZeroMetricResult]
    ELSE IF raw.result[1].shape # "ok"
         THEN [panicked |-> TRUE, result |-> ZeroMetricResult]
    ELSE [panicked |-> FALSE,
          result |-> [ErrorRate |-> 0,
                      Latency |-> parseFloat(raw.result[1].sample)]]

\* variant: the status is compared without regard to case
IsTraceFailureAnyCase(status) == status \notin {"ok", "OK", "Ok", "oK"}

\* if status != "ok"
IsTraceFailure(status) == status # "ok"

RECURSIVE TracesLoop(_, _, _)
\* for _, t := range traces
TracesLoop(ts, i, acc) ==
    IF acc.panicked \/ i > Len(ts) THEN acc
    ELSE IF ts[i].shape # "ok" THEN [acc EXCEPT !.panicked = TRUE]
    ELSE IF IsTraceFailure(ts[i].status)
         THEN TracesLoop(ts, i + 1,
                [panicked |-> FALSE,
                 Failures |-> acc.Failures + 1,
                 Events |-> Append(acc.Events,
                              [Time |-> ts[i].time, Message |-> TraceFailureMsg])])
    ELSE TracesLoop(ts, i + 1, acc)

AnalyzeTraces(raw) ==
    IF TopLevelPanics(raw) THEN [panicked |-> TRUE, result |-> ZeroTraceResult]
    ELSE LET acc == TracesLoop(raw.traces, 1,
                        [panicked |-> FALSE, Failures |-> 0, Events |-> <<>>])
         IN [panicked |-> acc.panicked,
             result |-> [Failures |-> acc.Failures, Events |-> acc.Events]]

\* variant: every pod that is not running counts as failed
IsFailedPodNotRunning(phase) == phase # "Running"

\* if phase == "Failed"
IsFailedPod(phase) == phase = "Failed"

RECURSIVE PodsLoop(_, _, _)
\* for _, i := range items
PodsLoop(items, i, acc) ==
    IF acc.panicked \/ i > Len(items) THEN acc
    ELSE IF items[i].shape # "ok" THEN [acc EXCEPT !.panicked = TRUE]
    ELSE IF IsFailedPod(items[i].phase)
         THEN PodsLoop(items, i + 1,
                [panicked |-> FALSE,
                 BadPods |-> acc.BadPods + 1,
                 Events |-> Append(acc.Events,
                              [Time |-> items[i].startTime, Message |-> PodFailedMsg])])
    ELSE PodsLoop(items, i + 1, acc)

AnalyzeK8s(raw) ==
    IF TopLevelPanics(raw) THEN [panicked |-> TRUE, result |-> ZeroK8sResult]
    ELSE LET acc == PodsLoop(raw.items, 1,
                        [panicked |-> FALSE, BadPods |-> 0, Events |-> <<>>])
         IN [panicked |-> acc.panicked,
             result |-> [BadPods |-> acc.BadPods, Events |-> acc.Events]]

---------------------------------------------------------------------------
(* correlation: timeline, impact, severity, incident *)

Tag(events, src) ==
    [i \in 1..Len(events) |->
        [Time |-> events[i].Time, Source |-> src, Message |-> events[i].Message]]

\* variant: the trace events are appended before the log events
BuildTimelineTracesFirst(l, m, t, k) ==
    Tag(t.Events, "traces") \o Tag(l.Events, "logs") \o Tag(k.Events, "k8s")

BuildTimeline(l, m, t, k) ==
    Tag(l.Events, "logs") \o Tag(t.Events, "traces") \o Tag(k.Events, "k8s")

\* correlation.CalculateImpact
CalculateImpact(errorRate, badPods) ==
    [SLOAffected |-> errorRate > 100, ErrorRate |-> errorRate, BadPods |-> badPods]

\* the Impact literal of BuildIncident
InlineImpact(m, k) ==
    [SLOAffected |-> m.ErrorRate > 100, ErrorRate |-> m.ErrorRate,
     BadPods |-> k.BadPods]

\* variant: the objective counts as missed from 1.0 on
CalculateSLOInclusive(errorRate) ==
    IF errorRate >= 100 THEN "degraded" ELSE "healthy"

\* services.CalculateSLO
CalculateSLO(errorRate) == IF errorRate > 100 THEN "degraded" ELSE "healthy"

\* variant: no severity for an Impact below both thresholds
calculateSeverityNoDefault(impact) ==
    IF impact.BadPods > 3 \/ impact.ErrorRate > 500 THEN "critical"
    ELSE IF impact.ErrorRate > 100 THEN "warning"
    ELSE ""

\* variant: the warning threshold is inclusive
calculateSeverityInclusive(impact) ==
    IF impact.BadPods > 3 \/ impact.ErrorRate > 500 THEN "critical"
    ELSE IF impact.ErrorRate >= 100 THEN "warning"
    ELSE "healthy"

calculateSeverity(impact) ==
    IF impact.BadPods > 3 \/ impact.ErrorRate > 500 THEN "critical"
    ELSE IF impact.ErrorRate > 100 THEN "warning"
    ELSE "healthy"

ZeroImpact == [SLOAffected |-> FALSE, ErrorRate |-> 0, BadPods |-> 0]
NoIncident == [ID |-> "", Service |-> "", RootCause |-> <<>>, Severity |-> "",
               Timeline |-> <<>>, Impact |-> ZeroImpact]

\* variant: every Incident carries the same id
MakeIncidentFixedID(svc, l, m, t, k) ==
    LET impact == InlineImpact(m, k)
    IN [ID |-> "incident",
        Service |-> svc,
        RootCause |-> l.RootCause,
        Severity |-> calculateSeverity(impact),
        Timeline |-> BuildTimeline(l, m, t, k),
        Impact |-> impact]

\* the return statement of BuildIncident
MakeIncident(svc, l, m, t, k) ==
    LET impact == InlineImpact(m, k)
    IN [ID |-> svc \o "-incident",
        Service |-> svc,
        RootCause |-> l.RootCause,
        Severity |-> calculateSeverity(impact),
        Timeline |-> BuildTimeline(l, m, t, k),
        Impact |-> impact]

---------------------------------------------------------------------------
(* The dashboard hook useAutoDeployWebSocket: its values *)

maxReconnectAttempts == 10
RecentLogsCap == 50

ErrSocket == "WebSocket connection error"
ErrMaxAttempts == "Max reconnection attempts reached"
ErrCreate == "Failed to create WebSocket connection"

\* useState initial value and the refs before the effect has run.  ws is
\* the readyState of the socket created last (none before the first), wsRef
\* says whether wsRef.current points to it, timer and ping whether the
\* reconnect timeout and the ping interval are pending, urlOk whether the
\* WebSocket constructor accepts WS_URL, received counts the messages.
NoHook ==
    [mounted |-> "no", urlOk |-> TRUE, ws |-> "none", wsRef |-> "null",
     timer |-> FALSE, ping |-> FALSE, attempts |-> 0, received |-> 0,
     isConnected |-> FALSE, lastMessage |-> "null", currentPipeline |-> "null",
     kubernetes |-> "null", recentLogs |-> <<>>, connectionError |-> "null"]

\* log entries, pipelines and deployments a message can carry
LogEntries == {"a", "b"}
FullLogs == [i \in 1..RecentLogsCap |-> "a"]
LogLists == {<<>>, <<"a", "b">>, FullLogs, Append(FullLogs, "b")}

TypesPipelineLog == {"pipeline_status", "pipeline_triggered", "stage_update"}
TypesK8sLog == {"deployment_event", "manual_deployment", "deployment_complete"}
TypesK8s == {"pods_update", "rollback"}

Msg(t, p, k, l, hl, ls) ==
    [type |-> t, pipeline |-> p, kubernetes |-> k, log |-> l,
     hasLogs |-> hl, logs |-> ls]

\* event.data of a message event: for each type the fields its case reads,
\* each present or absent; unparsable is text JSON.parse rejects
Messages ==
    {Msg("connected", p, k, "absent", FALSE, <<>>) :
        p \in {"absent", "p1"}, k \in {"absent", "k1"}}
    \cup {Msg("state_update", p, k, "absent", FALSE, <<>>) :
        p \in {"absent", "p1"}, k \in {"absent", "k1"}}
    \cup {Msg("state_update", "absent", "absent", "absent", TRUE, ls) :
        ls \in LogLists}
    \cup {Msg(t, p, "absent", l, FALSE, <<>>) :
        t \in TypesPipelineLog, p \in {"absent", "p1"},
        l \in {"absent"} \cup LogEntries}
    \cup {Msg(t, "absent", k, l, FALSE, <<>>) :
        t \in TypesK8sLog, k \in {"absent", "k1"},
        l \in {"absent"} \cup LogEntries}
    \cup {Msg(t, "absent", k, "absent", FALSE, <<>>) :
        t \in TypesK8s, k \in {"absent", "k1"}}
    \cup {Msg(t, "absent", "absent", "absent", FALSE, <<>>) :
        t \in {"pong", "unknown", "unparsable"}}

\* [message.data.log, ...prev.recentLogs].slice(0, 50)
PrependLog(log, recent) ==
    LET all == <<log>> \o recent
    IN SubSeq(all, 1, IF Len(all) < RecentLogsCap THEN Len(all) ELSE RecentLogsCap)

WithPipeline(h, m) ==
    IF m.pipeline # "absent" THEN [h EXCEPT !.currentPipeline = m.pipeline] ELSE h
WithKubernetes(h, m) ==
    IF m.kubernetes # "absent" THEN [h EXCEPT !.kubernetes = m.kubernetes] ELSE h
WithLogs(h, m) == IF m.hasLogs THEN [h EXCEPT !.recentLogs = m.logs] ELSE h
WithLog(h, prev, m) ==
    IF m.log # "absent"
    THEN [h EXCEPT !.recentLogs = PrependLog(m.log, prev.recentLogs)] ELSE h

\* ws.onmessage: the state after the updater passed to setState
OnMessage(prev, m) ==
    IF m.type = "unparsable" THEN prev
    ELSE LET newState == [prev EXCEPT !.lastMessage = m.type] IN
         CASE m.type = "connected" ->
                WithKubernetes(WithPipeline(newState, m), m)
           [] m.type = "state_update" ->
                WithLogs(WithKubernetes(WithPipeline(newState, m), m), m)
           [] m.type \in TypesPipelineLog ->
                WithLog(WithPipeline(newState, m), prev, m)
           [] m.type \in TypesK8sLog ->
                WithLog(WithKubernetes(newState, m), prev, m)
           [] m.type \in TypesK8s -> WithKubernetes(newState, m)
           [] OTHER -> newState

---------------------------------------------------------------------------
(* One invocation of BuildIncident, statement by statement *)

Init ==
    /\ pc = "idle"
    /\ service = ""
    /\ down = {}
    /\ rawLogs = NoPayloadLogs
    /\ rawMetrics = NoPayloadMetrics
    /\ rawTraces = NoPayloadTraces
    /\ rawK8s = NoPayloadK8s
    /\ logs = ZeroLogResult
    /\ metrics = ZeroMetricResult
    /\ traces = ZeroTraceResult
    /\ k8s = ZeroK8sResult
    /\ incident = NoIncident
    /\ sevIn = ZeroImpact
    /\ sevOut = ""
    /\ hook = NoHook

\* BuildIncident(service) is called
Start ==
    /\ pc = "idle"
    /\ \E svc \in Services : service' = svc
    /\ \E d \in SUBSET Sources : down' = d
    /\ pc' = "logs"
    /\ UNCHANGED <<rawLogs, rawMetrics, rawTraces, rawK8s,
                   logs, metrics, traces, k8s, incident, sevIn, sevOut>>
    /\ UNCHANGED hook

\* services.QueryLogs: the response body or, on a transport error, the error
\* text in its place
QueryLogs == IF "logs" \in down THEN {ErrorTextLogs} ELSE LogPayloads(Budget)

\* services.QueryMetrics
QueryMetrics ==
    IF "metrics" \in down THEN {ErrorTextMetrics} ELSE MetricPayloads(Budget)

\* services.GetTraces
GetTraces == IF "traces" \in down THEN {ErrorTextTraces} ELSE TracePayloads(Budget)

\* services.GetCluster: the pod list of the cluster
GetCluster == IF "k8s" \in down THEN {ErrorTextK8s} ELSE K8sPayloads(Budget)

\* a panic unwinds BuildIncident: its locals are gone, what is left is the
\* payload the analyzer src panicked on
Unwound(src) ==
    /\ src # "logs" => (rawLogs' = NoPayloadLogs /\ logs' = ZeroLogResult)
    /\ src # "metrics" => (rawMetrics' = NoPayloadMetrics /\ metrics' = ZeroMetricResult)
    /\ src # "traces" => (rawTraces' = NoPayloadTraces /\ traces' = ZeroTraceResult)
    /\ src # "k8s" => (rawK8s' = NoPayloadK8s /\ k8s' = ZeroK8sResult)

\* variant: a log payload the analyzer cannot read is fetched once more
StepLogsRetry ==
    /\ pc = "logs"
    /\ \E raw \in QueryLogs :
         /\ rawLogs' = raw
         /\ LET r == AnalyzeLogs(service, raw) IN
              IF r.panicked
              THEN /\ pc' = "logs"
                   /\ logs' = logs
                   /\ UNCHANGED <<rawMetrics, rawTraces, rawK8s, metrics, traces, k8s>>
              ELSE /\ pc' = "metrics"
                   /\ logs' = r.result
                   /\ UNCHANGED <<rawMetrics, rawTraces, rawK8s, metrics, traces, k8s>>
    /\ UNCHANGED <<service, down, incident, sevIn, sevOut>>
    /\ UNCHANGED hook

\* logs := analysis.AnalyzeLogs(service, raw), raw being what the log client
\* returned
StepLogs ==
    /\ pc = "logs"
    /\ \E raw \in QueryLogs :
         /\ rawLogs' = raw
         /\ LET r == AnalyzeLogs(service, raw) IN
              IF r.panicked
              THEN pc' = "panic" /\ logs' = logs /\ Unwound("logs")
              ELSE /\ pc' = "metrics"
                   /\ logs' = r.result
                   /\ UNCHANGED <<rawMetrics, rawTraces, rawK8s, metrics, traces, k8s>>
    /\ UNCHANGED <<service, down, incident, sevIn, sevOut>>
    /\ UNCHANGED hook

\* metrics := analysis.AnalyzeMetrics(raw)
StepMetrics ==
    /\ pc = "metrics"
    /\ \E raw \in QueryMetrics :
         /\ rawMetrics' = raw
         /\ LET r == AnalyzeMetrics(raw) IN
              IF r.panicked
              THEN pc' = "panic" /\ metrics' = metrics /\ Unwound("metrics")
              ELSE /\ pc' = "traces"
                   /\ metrics' = r.result
                   /\ UNCHANGED <<rawLogs, rawTraces, rawK8s, logs, traces, k8s>>
    /\ UNCHANGED <<service, down, incident, sevIn, sevOut>>
    /\ UNCHANGED hook

\* variant: the trace analyzer appends to the event slice of the log analyzer
StepTracesSharedEvents ==
    /\ pc = "traces"
    /\ \E raw \in GetTraces :
         /\ rawTraces' = raw
         /\ LET r == AnalyzeTraces(raw) IN
              IF r.panicked
              THEN pc' = "panic" /\ traces' = traces /\ Unwound("traces")
              ELSE /\ pc' = "k8s"
                   /\ traces' = [r.result EXCEPT !.Events = logs.Events \o @]
                   /\ UNCHANGED <<rawLogs, rawMetrics, rawK8s, logs, metrics, k8s>>
    /\ UNCHANGED <<service, down, incident, sevIn, sevOut>>
    /\ UNCHANGED hook

\* traces := analysis.AnalyzeTraces(raw)
StepTraces ==
    /\ pc = "traces"
    /\ \E raw \in GetTraces :
         /\ rawTraces' = raw
         /\ LET r == AnalyzeTraces(raw) IN
              IF r.panicked
              THEN pc' = "panic" /\ traces' = traces /\ Unwound("traces")
              ELSE /\ pc' = "k8s"
                   /\ traces' = r.result
                   /\ UNCHANGED <<rawLogs, rawMetrics, rawK8s, logs, metrics, k8s>>
    /\ UNCHANGED <<service, down, incident, sevIn, sevOut>>
    /\ UNCHANGED hook

\* k8s := analysis.AnalyzeK8s(raw)
StepK8s ==
    /\ pc = "k8s"
    /\ \E raw \in GetCluster :
         /\ rawK8s' = raw
         /\ LET r == AnalyzeK8s(raw) IN
              IF r.panicked
              THEN pc' = "panic" /\ k8s' = k8s /\ Unwound("k8s")
              ELSE /\ pc' = "build"
                   /\ k8s' = r.result
                   /\ UNCHANGED <<rawLogs, rawMetrics, rawTraces, logs, metrics, traces>>
    /\ UNCHANGED <<service, down, incident, sevIn, sevOut>>
    /\ UNCHANGED hook

\* variant: impact and Incident are built while the pod analysis is still due
BuildIncidentEarly ==
    /\ pc \in {"k8s", "build"}
    /\ incident' = MakeIncident(service, logs, metrics, traces, k8s)
    /\ pc' = "done"
    /\ UNCHANGED <<service, down, rawLogs, rawMetrics, rawTraces, rawK8s,
                   logs, metrics, traces, k8s, sevIn, sevOut>>
    /\ UNCHANGED hook

\* impact := Impact{...}; return Incident{...}
BuildIncident ==
    /\ pc = "build"
    /\ incident' = MakeIncident(service, logs, metrics, traces, k8s)
    /\ pc' = "done"
    /\ UNCHANGED <<service, down, rawLogs, rawMetrics, rawTraces, rawK8s,
                   logs, metrics, traces, k8s, sevIn, sevOut>>
    /\ UNCHANGED hook

\* the invocation is over (returned or panicked); nothing is kept for the
\* next one
Finish ==
    /\ pc \in {"done", "panic"}
    /\ pc' = "idle"
    /\ service' = ""
    /\ down' = {}
    /\ rawLogs' = NoPayloadLogs
    /\ rawMetrics' = NoPayloadMetrics
    /\ rawTraces' = NoPayloadTraces
    /\ rawK8s' = NoPayloadK8s
    /\ logs' = ZeroLogResult
    /\ metrics' = ZeroMetricResult
    /\ traces' = ZeroTraceResult
    /\ k8s' = ZeroK8sResult
    /\ incident' = NoIncident
    /\ UNCHANGED <<sevIn, sevOut>>
    /\ UNCHANGED hook

\* http.Get on the default client carries no timeout and BuildIncident sets
\* none: the client call whose backend accepts the request and never answers
\* stays blocked, and BuildIncident with it
Hang ==
    /\ pc \in Sources \ down
    /\ pc' = "wait_" \o pc
    /\ UNCHANGED <<service, down, rawLogs, rawMetrics, rawTraces, rawK8s,
                   logs, metrics, traces, k8s, incident, sevIn, sevOut>>
    /\ UNCHANGED hook

Next ==
    \/ Start
    \/ Hang
    \/ StepLogs
    \/ StepMetrics
    \/ StepTraces
    \/ StepK8s
    \/ BuildIncident
    \/ Finish

Spec == Init /\ [][Next]_vars

\* what the Go runtime guarantees: a goroutine that can run does run, so a
\* client call whose response has arrived returns, the analyzer is applied
\* and BuildIncident goes on to its return.  Nothing obliges a caller to
\* invoke BuildIncident (Start) nor a backend to stay silent (Hang).
Proceed ==
    \/ StepLogs
    \/ StepMetrics
    \/ StepTraces
    \/ StepK8s
    \/ BuildIncident
    \/ Finish

FairSpec == Spec /\ WF_vars(Proceed)

---------------------------------------------------------------------------
(* The severity classifier on its own, over every Impact value *)

Impacts == [SLOAffected : BOOLEAN, ErrorRate : 0..MaxErrorRate,
            BadPods : 0..MaxBadPods]

InitSeverity ==
    /\ pc = "classify"
    /\ service = ""
    /\ down = {}
    /\ rawLogs = NoPayloadLogs
    /\ rawMetrics = NoPayloadMetrics
    /\ rawTraces = NoPayloadTraces
    /\ rawK8s = NoPayloadK8s
    /\ logs = ZeroLogResult
    /\ metrics = ZeroMetricResult
    /\ traces = ZeroTraceResult
    /\ k8s = ZeroK8sResult
    /\ incident = NoIncident
    /\ sevIn \in Impacts
    /\ sevOut = ""
    /\ hook = NoHook

Classify ==
    /\ pc = "classify"
    /\ sevOut' = calculateSeverity(sevIn)
    /\ pc' = "classified"
    /\ UNCHANGED <<service, down, rawLogs, rawMetrics, rawTraces, rawK8s,
                   logs, metrics, traces, k8s, incident, sevIn>>
    /\ UNCHANGED hook

NextSeverity == Classify

SpecSeverity == InitSeverity /\ [][NextSeverity]_vars

---------------------------------------------------------------------------
(* Impact, severity and SLO verdict over every error rate and pod count *)

InitImpact ==
    /\ pc = "assess"
    /\ service = "checkout"
    /\ down = {}
    /\ rawLogs = NoPayloadLogs
    /\ rawMetrics = NoPayloadMetrics
    /\ rawTraces = NoPayloadTraces
    /\ rawK8s = NoPayloadK8s
    /\ logs = ZeroLogResult
    /\ metrics \in [ErrorRate : 0..MaxErrorRate, Latency : {0}]
    /\ traces = ZeroTraceResult
    /\ k8s \in [BadPods : 0..MaxBadPods, Events : {<<>>}]
    /\ incident = NoIncident
    /\ sevIn = ZeroImpact
    /\ sevOut = ""
    /\ hook = NoHook

\* CalculateImpact(errorRate, badPods), CalculateSLO(errorRate) and the
\* impact and severity of BuildIncident, applied to one error rate and one
\* pod count
Assess ==
    /\ pc = "assess"
    /\ sevIn' = CalculateImpact(metrics.ErrorRate, k8s.BadPods)
    /\ sevOut' = CalculateSLO(metrics.ErrorRate)
    /\ incident' = MakeIncident(service, logs, metrics, traces, k8s)
    /\ pc' = "assessed"
    /\ UNCHANGED <<service, down, rawLogs, rawMetrics, rawTraces, rawK8s,
                   logs, metrics, traces, k8s>>
    /\ UNCHANGED hook

NextImpact == Assess

SpecImpact == InitImpact /\ [][NextImpact]_vars

---------------------------------------------------------------------------
(* The analyzers on their own, each over every payload of its bounded set *)

\* statuses a trace can carry: the literal ok, its upper-case spelling, the
\* empty string and an error
AllTraceStatuses == {"ok", "OK", "", "error"}
AllTraceItems ==
    [shape : {"ok"}, status : AllTraceStatuses, time : Times]
    \cup {[shape |-> "no_status", status |-> "", time |-> 1]}
AllTracePayloads(n) ==
    {[shape |-> "ok", traces |-> t] : t \in SeqsUpTo(AllTraceItems, n)}
    \cup {[shape |-> f, traces |-> <<>>] : f \in TopFailures}

\* pod phases of the Kubernetes API and a value outside them
AllPodPhases == {"Pending", "Running", "Succeeded", "Failed", "Unknown", "Evicted"}
AllPods ==
    [shape : {"ok"}, phase : AllPodPhases \ {"Failed"}, startTime : {1}]
    \cup [shape : {"ok"}, phase : {"Failed"}, startTime : Times]
    \cup {[shape |-> "no_phase", phase |-> "", startTime |-> 1]}
AllK8sPayloads(n) ==
    {[shape |-> "ok", items |-> p] : p \in SeqsUpTo(AllPods, n)}
    \cup {[shape |-> f, items |-> <<>>] : f \in TopFailures}

InitNormalize ==
    /\ pc \in {"raw_logs", "raw_metrics", "raw_traces", "raw_k8s"}
    /\ service \in (IF pc = "raw_logs" THEN Services ELSE {""})
    /\ down = {}
    /\ rawLogs \in (IF pc = "raw_logs" THEN LogPayloads(MaxItems)
                                       ELSE {NoPayloadLogs})
    /\ rawMetrics \in (IF pc = "raw_metrics" THEN MetricPayloads(MaxItems)
                                             ELSE {NoPayloadMetrics})
    /\ rawTraces \in (IF pc = "raw_traces" THEN AllTracePayloads(MaxItems)
                                           ELSE {NoPayloadTraces})
    /\ rawK8s \in (IF pc = "raw_k8s" THEN AllK8sPayloads(MaxItems)
                                     ELSE {NoPayloadK8s})
    /\ logs = ZeroLogResult
    /\ metrics = ZeroMetricResult
    /\ traces = ZeroTraceResult
    /\ k8s = ZeroK8sResult
    /\ incident = NoIncident
    /\ sevIn = ZeroImpact
    /\ sevOut = ""
    /\ hook = NoHook

\* analysis.AnalyzeLogs(service, raw)
NormalizeLogs ==
    /\ pc = "raw_logs"
    /\ LET r == AnalyzeLogs(service, rawLogs) IN
         /\ pc' = IF r.panicked THEN "panic" ELSE "normalized"
         /\ logs' = IF r.panicked THEN logs ELSE r.result
    /\ UNCHANGED <<service, down, rawLogs, rawMetrics, rawTraces, rawK8s,
                   metrics, traces, k8s, incident, sevIn, sevOut>>
    /\ UNCHANGED hook

\* analysis.AnalyzeMetrics(raw)
NormalizeMetrics ==
    /\ pc = "raw_metrics"
    /\ LET r == AnalyzeMetrics(rawMetrics) IN
         /\ pc' = IF r.panicked THEN "panic" ELSE "normalized"
         /\ metrics' = IF r.panicked THEN metrics ELSE r.result
    /\ UNCHANGED <<service, down, rawLogs, rawMetrics, rawTraces, rawK8s,
                   logs, traces, k8s, incident, sevIn, sevOut>>
    /\ UNCHANGED hook

\* analysis.AnalyzeTraces(raw)
NormalizeTraces ==
    /\ pc = "raw_traces"
    /\ LET r == AnalyzeTraces(rawTraces) IN
         /\ pc' = IF r.panicked THEN "panic" ELSE "normalized"
         /\ traces' = IF r.panicked THEN traces ELSE r.result
    /\ UNCHANGED <<service, down, rawLogs, rawMetrics, rawTraces, rawK8s,
                   logs, metrics, k8s, incident, sevIn, sevOut>>
    /\ UNCHANGED hook

\* analysis.AnalyzeK8s(raw)
NormalizeK8s ==
    /\ pc = "raw_k8s"
    /\ LET r == AnalyzeK8s(rawK8s) IN
         /\ pc' = IF r.panicked THEN "panic" ELSE "normalized"
         /\ k8s' = IF r.panicked THEN k8s ELSE r.result
    /\ UNCHANGED <<service, down, rawLogs, rawMetrics, rawTraces, rawK8s,
                   logs, metrics, traces, incident, sevIn, sevOut>>
    /\ UNCHANGED hook

NextNormalize ==
    \/ NormalizeLogs
    \/ NormalizeMetrics
    \/ NormalizeTraces
    \/ NormalizeK8s

SpecNormalize == InitNormalize /\ [][NextNormalize]_vars

---------------------------------------------------------------------------
(* The dashboard hook useAutoDeployWebSocket: mount, socket events, timer,
   unmount.  The components of the repository take isConnected, the three
   data fields and requestRefresh from the hook and never call the connect
   and disconnect it returns, so connect runs from the effect and from the
   reconnect timer only, and disconnect from the cleanup of the effect.
   setState is modelled by what its updater computes. *)

InitHook ==
    /\ pc = "hook"
    /\ service = ""
    /\ down = {}
    /\ rawLogs = NoPayloadLogs
    /\ rawMetrics = NoPayloadMetrics
    /\ rawTraces = NoPayloadTraces
    /\ rawK8s = NoPayloadK8s
    /\ logs = ZeroLogResult
    /\ metrics = ZeroMetricResult
    /\ traces = ZeroTraceResult
    /\ k8s = ZeroK8sResult
    /\ incident = NoIncident
    /\ sevIn = ZeroImpact
    /\ sevOut = ""
    /\ hook \in {[NoHook EXCEPT !.urlOk = b] : b \in BOOLEAN}

HookFrame ==
    UNCHANGED <<pc, service, down, rawLogs, rawMetrics, rawTraces, rawK8s,
                logs, metrics, traces, k8s, incident, sevIn, sevOut>>

\* connect(): nothing when the current socket is OPEN, else new WebSocket
\* with its four handlers, or the catch branch when the constructor throws
Connect(h) ==
    IF h.wsRef = "set" /\ h.ws = "open" THEN h
    ELSE IF h.urlOk THEN [h EXCEPT !.ws = "connecting", !.wsRef = "set"]
    ELSE [h EXCEPT !.connectionError = ErrCreate]

\* variant: the test of onclose admits the attempt after the last one
ShouldReconnectInclusive(attempts) == attempts <= maxReconnectAttempts

\* if (reconnectAttempts.current < maxReconnectAttempts)
ShouldReconnect(attempts) == attempts < maxReconnectAttempts

\* useEffect on mount: connect()
Mount ==
    /\ pc = "hook"
    /\ hook.mounted = "no"
    /\ hook' = Connect([hook EXCEPT !.mounted = "yes"])
    /\ HookFrame

\* ws.onopen
OnOpen ==
    /\ pc = "hook"
    /\ hook.ws = "connecting"
    /\ hook' = [hook EXCEPT !.ws = "open", !.attempts = 0, !.isConnected = TRUE,
                            !.connectionError = "null", !.ping = TRUE]
    /\ HookFrame

\* ws.onmessage
OnMessageEvent ==
    /\ pc = "hook"
    /\ hook.ws \in {"open", "closing"}
    /\ hook.received < MaxMessages
    /\ \E m \in Messages :
          hook' = [OnMessage(hook, m) EXCEPT !.received = @ + 1]
    /\ HookFrame

\* ws.onerror; the browser sends the close event after it
OnError ==
    /\ pc = "hook"
    /\ hook.ws \in {"connecting", "open", "closing"}
    /\ hook' = [hook EXCEPT !.ws = "failed", !.connectionError = ErrSocket]
    /\ HookFrame

\* ws.onclose: the connection failed, the server closed it, or close() was
\* called on the socket
OnClose ==
    /\ pc = "hook"
    /\ hook.ws \in {"connecting", "open", "closing", "failed"}
    /\ LET h == [hook EXCEPT !.ws = "closed", !.ping = FALSE,
                             !.isConnected = FALSE]
       IN hook' = IF ShouldReconnect(hook.attempts)
                  THEN [h EXCEPT !.timer = TRUE]
                  ELSE [h EXCEPT !.connectionError = ErrMaxAttempts]
    /\ HookFrame

\* the callback of the reconnect timeout
ReconnectTimer ==
    /\ pc = "hook"
    /\ hook.timer
    /\ hook' = Connect([hook EXCEPT !.timer = FALSE, !.attempts = @ + 1])
    /\ HookFrame

\* cleanup of the effect on unmount: disconnect()
Unmount ==
    /\ pc = "hook"
    /\ hook.mounted = "yes"
    /\ hook' = [hook EXCEPT
                  !.mounted = "gone",
                  !.timer = FALSE,
                  !.ping = FALSE,
                  !.ws = IF hook.wsRef = "set" /\ @ \in {"connecting", "open"}
                         THEN "closing" ELSE @,
                  !.wsRef = "null"]
    /\ HookFrame

NextHook ==
    \/ Mount
    \/ OnOpen
    \/ OnMessageEvent
    \/ OnError
    \/ OnClose
    \/ ReconnectTimer
    \/ Unmount

SpecHook == InitHook /\ [][NextHook]_vars

---------------------------------------------------------------------------
(* Vocabulary of the properties *)

Finished == pc \in {"done", "panic"}

\* how the invocation ended: BuildIncident returns an Incident and nothing
\* else, so the only other way out is the panic
Outcome ==
    IF pc = "done" THEN "incident" ELSE IF pc = "panic" THEN "panic" ELSE "running"

\* sources the returned Incident names as degraded: the Incident struct has
\* the fields ID, Service, RootCause, Severity, Timeline, Impact and no other
Degraded(inc) == {}

ItemsOk(items) == \A i \in 1..Len(items) : items[i].shape = "ok"

WellFormedLogs ==
    /\ rawLogs.shape = "ok"
    /\ \A i \in 1..Len(rawLogs.streams) :
          /\ rawLogs.streams[i].shape = "ok"
          /\ ItemsOk(rawLogs.streams[i].values)
WellFormedMetrics == rawMetrics.shape = "ok" /\ ItemsOk(rawMetrics.result)
WellFormedTraces == rawTraces.shape = "ok" /\ ItemsOk(rawTraces.traces)
WellFormedK8s == rawK8s.shape = "ok" /\ ItemsOk(rawK8s.items)

\* a payload was received and does not have the expected shape
MalformedSources ==
    {s \in Sources :
        \/ s = "logs" /\ rawLogs.shape \notin {"none", "error_text"} /\ ~WellFormedLogs
        \/ s = "metrics" /\ rawMetrics.shape \notin {"none", "error_text"}
                         /\ ~WellFormedMetrics
        \/ s = "traces" /\ rawTraces.shape \notin {"none", "error_text"}
                        /\ ~WellFormedTraces
        \/ s = "k8s" /\ rawK8s.shape \notin {"none", "error_text"} /\ ~WellFormedK8s}

\* sources whose client or normalizer fails in this invocation
FailedSources == down \cup MalformedSources

RECURSIVE FlatLines(_)
\* the lines of a log payload in payload order
FlatLines(streams) ==
    IF streams = <<>> THEN <<>>
    ELSE Head(streams).values \o FlatLines(Tail(streams))

\* msg holds e-r-r-o-r at some offset, each letter in either case
HasMarkerAnyCase(msg) ==
    \E off \in 0..(Len(msg) - 5) :
        /\ msg[off + 1] \in {"e", "E"}
        /\ msg[off + 2] \in {"r", "R"}
        /\ msg[off + 3] \in {"r", "R"}
        /\ msg[off + 4] \in {"o", "O"}
        /\ msg[off + 5] \in {"r", "R"}

ErrorIndexesOf(flat) == {i \in 1..Len(flat) : HasMarkerAnyCase(flat[i].msg)}

ErrorLineIndexes == ErrorIndexesOf(FlatLines(rawLogs.streams))

FirstErrorLine ==
    LET flat == FlatLines(rawLogs.streams)
        idx == ErrorIndexesOf(flat)
    IN IF idx = {} THEN <<>>
       ELSE flat[CHOOSE i \in idx : \A j \in idx : i <= j].msg

FailedTraceIndexes ==
    {i \in 1..Len(rawTraces.traces) : rawTraces.traces[i].status # "ok"}
FailedPodIndexes ==
    {i \in 1..Len(rawK8s.items) : rawK8s.items[i].phase = "Failed"}

\* the events each analyzer is to produce, read off the payload it was given
ExpectedLogEvents ==
    LET flat == FlatLines(rawLogs.streams)
    IN [i \in 1..Len(flat) |-> [Time |-> flat[i].ts, Message |-> flat[i].msg]]
ExpectedTraceEvents ==
    LET failed == SelectSeq(rawTraces.traces, LAMBDA t : t.status # "ok")
    IN [i \in 1..Len(failed) |->
           [Time |-> failed[i].time, Message |-> TraceFailureMsg]]
ExpectedK8sEvents ==
    LET failed == SelectSeq(rawK8s.items, LAMBDA p : p.phase = "Failed")
    IN [i \in 1..Len(failed) |->
           [Time |-> failed[i].startTime, Message |-> PodFailedMsg]]

\* events with the tag of the source they come from
From(src, events) ==
    [i \in 1..Len(events) |->
        [Time |-> events[i].Time, Source |-> src, Message |-> events[i].Message]]

IsSorted(tl) == \A i \in 1..(Len(tl) - 1) : tl[i].Time <= tl[i + 1].Time

SourceEvents(tl, src) == SelectSeq(tl, LAMBDA e : e.Source = src)

---------------------------------------------------------------------------
(* Properties *)

\* C1: the timeline of every returned Incident is sorted non-decreasing by
\* event time.  The code concatenates logs, traces and k8s events unsorted.
C1_TimelineSorted == pc = "done" => IsSorted(incident.Timeline)

\* C2: when exactly one source client fails with a transport error and the
\* other three payloads are valid, the invocation still returns an Incident,
\* flagged partial, to which the failed source contributes nothing.
C2_OneTransportErrorDegrades ==
    (Finished /\ Cardinality(down) = 1 /\ MalformedSources = {})
    => /\ Outcome = "incident"
       /\ Degraded(incident) # {}
       /\ \A s \in down : SourceEvents(incident.Timeline, s) = <<>>
       /\ "metrics" \in down => incident.Impact.ErrorRate = 0
       /\ "k8s" \in down => incident.Impact.BadPods = 0

\* C3: the invocation ends with an explicit error exactly when all four
\* sources failed; otherwise never with that error.
C3_ErrorIffAllFailed ==
    Finished => (Outcome = "error" <=> FailedSources = Sources)

\* C4: no payload, however malformed, makes a normalizer crash.
C4_NoPanic == pc # "panic"

\* C5: the classifier returns critical exactly when BadPods > 3 or
\* ErrorRate > 5.0, warning exactly when not critical and ErrorRate > 1.0,
\* healthy otherwise; all comparisons strict.
C5_SeverityThresholds ==
    pc = "classified" =>
        LET crit == sevIn.BadPods > 3 \/ sevIn.ErrorRate > 500
            warn == ~crit /\ sevIn.ErrorRate > 100
        IN /\ sevOut = "critical" <=> crit
           /\ sevOut = "warning" <=> warn
           /\ sevOut = "healthy" <=> (~crit /\ ~warn)
           /\ (sevIn.ErrorRate = 100 /\ sevIn.BadPods <= 3) => sevOut = "healthy"
           /\ (sevIn.ErrorRate = 101 /\ sevIn.BadPods <= 3) => sevOut = "warning"
           /\ sevIn.BadPods = 4 => sevOut = "critical"

\* C5 witness: the boundary error rate 1.0 with few failing pods was classified
C5_Witness ==
    pc = "classified" /\ sevIn.ErrorRate = 100 /\ sevIn.BadPods = 3
    /\ sevOut = "healthy"

\* C6: unless all sources failed, an Incident is returned that names as
\* degraded exactly the sources that failed, each replaced by a zero result.
C6_DegradedExactlyFailed ==
    (Finished /\ FailedSources # Sources)
    => /\ Outcome = "incident"
       /\ Degraded(incident) = FailedSources
       /\ "logs" \in FailedSources => logs = ZeroLogResult
       /\ "metrics" \in FailedSources => metrics = ZeroMetricResult
       /\ "traces" \in FailedSources => traces = ZeroTraceResult
       /\ "k8s" \in FailedSources => k8s = ZeroK8sResult

\* the rate the metrics backend reported: the sample of the first series
ReportedRate ==
    IF rawMetrics.shape = "ok" /\ Len(rawMetrics.result) > 0
    THEN parseFloat(rawMetrics.result[1].sample)
    ELSE 0

\* C7: the impact carries the error rate the metrics source reported, the
\* failing-pod count of the cluster normalizer, and sloBreached exactly when
\* the error rate exceeds 1.0.
C7_ImpactFromSources ==
    pc = "done" =>
        /\ incident.Impact.ErrorRate = ReportedRate
        /\ incident.Impact.BadPods = Cardinality(FailedPodIndexes)
        /\ incident.Impact.SLOAffected <=> (incident.Impact.ErrorRate > 100)

\* C8: rootCause is the first line in payload order that contains "error"
\* in any case, empty when there is none; errorCount is the number of such
\* lines.
C8_RootCauseIsFirstErrorLine ==
    pc = "done" =>
        /\ incident.RootCause = FirstErrorLine
        /\ logs.ErrorCount = Cardinality(ErrorLineIndexes)

\* C8 witness: two different error lines were received, the first one won
C8_Witness ==
    /\ pc = "done"
    /\ Len(FlatLines(rawLogs.streams)) = 2
    /\ ErrorLineIndexes = {1, 2}
    /\ FlatLines(rawLogs.streams)[1].msg # FlatLines(rawLogs.streams)[2].msg
    /\ incident.RootCause = FlatLines(rawLogs.streams)[1].msg
    /\ logs.ErrorCount = 2

\* C9 as stated: an error line, a non-ok trace or a Failed pod makes
\* rootCause non-empty.
C9_AnyErrorEventGivesRootCause ==
    (pc = "done" /\ (ErrorLineIndexes # {} \/ FailedTraceIndexes # {}
                     \/ FailedPodIndexes # {}))
    => incident.RootCause # <<>>

\* C9 amended: rootCause is taken from the logs alone; it is non-empty
\* whenever the logs contain an error line, and a non-ok trace or a Failed
\* pod without an error line leaves it empty.
C9_LogErrorGivesRootCause ==
    pc = "done" => (ErrorLineIndexes # {} <=> incident.RootCause # <<>>)

\* C9 witness: an Incident built from a mixed-case error line and a Failed pod
C9_Witness ==
    /\ pc = "done"
    /\ Len(FlatLines(rawLogs.streams)) = 1
    /\ FlatLines(rawLogs.streams)[1].msg = MsgMixed
    /\ FailedPodIndexes # {}
    /\ incident.RootCause = MsgMixed

\* the end-to-end scenario of C10
C10_Scenario ==
    /\ rawMetrics.shape = "ok" /\ Len(rawMetrics.result) > 0
    /\ rawMetrics.result[1].sample = Sample62
    /\ Cardinality(FailedPodIndexes) = 1
    /\ Len(FlatLines(rawLogs.streams)) = 1
    /\ ErrorLineIndexes = {1}
    /\ FailedTraceIndexes = {}

\* C10: in the scenario (error rate 6.2, one failing pod, one error line, no
\* failed trace) the Incident is critical, breaches the SLO, its timeline is
\* the one log event and rootCause is that line.
C10_EndToEnd ==
    (pc = "done" /\ C10_Scenario)
    => /\ incident.Severity = "critical"
       /\ incident.Impact.SLOAffected
       /\ incident.Timeline
             = <<[Time |-> FlatLines(rawLogs.streams)[1].ts, Source |-> "logs",
                  Message |-> FlatLines(rawLogs.streams)[1].msg]>>
       /\ incident.RootCause = FlatLines(rawLogs.streams)[1].msg

\* C11: BuildIncident is deterministic and keeps nothing between invocations.
\* The Incident it returns is a fixed function of its argument and of the
\* four responses of this invocation: the id is "<service>-incident", and
\* root cause, severity, timeline order and impact are read off the
\* responses alone; between two invocations every local is gone, so that
\* the invocations made before leave no trace in a later one.
C11_IncidentFromResponsesAlone ==
    /\ pc = "done"
       => incident =
            [ID |-> service \o "-incident",
             Service |-> service,
             RootCause |-> FirstErrorLine,
             Severity |-> IF Len(ExpectedK8sEvents) > 3 THEN "critical"
                          ELSE "healthy",
             Timeline |-> From("logs", ExpectedLogEvents)
                          \o From("traces", ExpectedTraceEvents)
                          \o From("k8s", ExpectedK8sEvents),
             Impact |-> [SLOAffected |-> FALSE, ErrorRate |-> 0,
                         BadPods |-> Len(ExpectedK8sEvents)]]
    /\ pc = "idle"
       => /\ <<rawLogs, rawMetrics, rawTraces, rawK8s>>
               = <<NoPayloadLogs, NoPayloadMetrics, NoPayloadTraces, NoPayloadK8s>>
          /\ <<logs, metrics, traces, k8s>>
               = <<ZeroLogResult, ZeroMetricResult, ZeroTraceResult, ZeroK8sResult>>
          /\ incident = NoIncident

\* an Incident for the second service with a root cause, events of two
\* sources and a failing pod
C11_Witness ==
    /\ pc = "done"
    /\ incident.ID = "cart-incident"
    /\ incident.RootCause # <<>>
    /\ incident.Impact.BadPods = 1
    /\ Len(incident.Timeline) = 3

Severities == {"healthy", "warning", "critical"}

SourcePriority(src) ==
    CASE src = "logs" -> 1
      [] src = "traces" -> 2
      [] src = "k8s" -> 3
      [] src = "metrics" -> 4
      [] OTHER -> 5

At(events, t) == SelectSeq(events, LAMBDA e : e.Time = t)

\* C13: in the timeline of a returned Incident any two events with equal
\* time stand in source priority order, logs before traces before cluster
\* before metrics, and the events of one source with equal time stand in the
\* order in which the analyzer of that source produced them.
C13_TiesInSourceOrder ==
    pc = "done"
    => LET tl == incident.Timeline IN
       /\ \A i, j \in 1..Len(tl) :
              (i < j /\ tl[i].Time = tl[j].Time)
              => SourcePriority(tl[i].Source) <= SourcePriority(tl[j].Source)
       /\ \A t \in Times :
              /\ At(SourceEvents(tl, "logs"), t) = At(From("logs", logs.Events), t)
              /\ At(SourceEvents(tl, "traces"), t)
                    = At(From("traces", traces.Events), t)
              /\ At(SourceEvents(tl, "k8s"), t) = At(From("k8s", k8s.Events), t)

\* two different log lines, a failed trace and a failed pod, all of one time
C13_Witness ==
    /\ pc = "done"
    /\ Len(incident.Timeline) = 4
    /\ \A i \in 1..4 : incident.Timeline[i].Time = incident.Timeline[1].Time
    /\ incident.Timeline[1].Source = "logs"
    /\ incident.Timeline[2].Source = "logs"
    /\ incident.Timeline[1].Message # incident.Timeline[2].Message
    /\ incident.Timeline[3].Source = "traces"
    /\ incident.Timeline[4].Source = "k8s"

\* a client call is blocked on a backend that does not answer
Waiting == {"wait_logs", "wait_metrics", "wait_traces", "wait_k8s"}

\* C14: the fetch of a source whose backend does not answer is cut off by
\* its timeout and the source counted as failed, so that the invocation is
\* never held up by it: in every state in which a client call is blocked on
\* a silent backend there is a step that takes the invocation further.
C14_SilentSourceIsCutOff == pc \in Waiting => ENABLED <<Next>>_vars

\* C15: every invocation of BuildIncident eventually returns, also when a
\* backend never responds: once started, it reaches its return (or the end
\* of the goroutine) whatever the backends do.
C15_InvocationReturns == (pc # "idle") ~> Finished

\* the source tags an Event may carry
EventSources == {"metrics", "logs", "traces", "cluster"}

Count(events, e) == Cardinality({i \in 1..Len(events) : events[i] = e})

\* the same events the same number of times, in whatever order
SameEvents(a, b) ==
    /\ Len(a) = Len(b)
    /\ \A i \in 1..Len(a) : Count(a, a[i]) = Count(b, a[i])

\* C16: the timeline of a returned Incident is exactly the multiset union of
\* the event lists of the analyzers: every event once, with its time and
\* message, none added and none lost, each tagged with one of metrics, logs,
\* traces, cluster, the tag naming the analyzer that produced the event.
C16_TimelineIsUnionOfSourceEvents ==
    pc = "done"
    => /\ \A i \in 1..Len(incident.Timeline) :
              incident.Timeline[i].Source \in EventSources
       /\ SameEvents(incident.Timeline,
                     From("logs", logs.Events) \o From("traces", traces.Events)
                     \o From("cluster", k8s.Events))

\* C17: AnalyzeLogs gives one event per log line, for every line of every
\* stream, whether the line matches the error marker or not: the events are
\* as many as the [timestamp, line] pairs of the payload, stand in payload
\* order, and each carries the timestamp and the text of its line.
C17_OneEventPerLogLine ==
    (pc = "normalized" /\ rawLogs.shape = "ok")
    => /\ Len(logs.Events) = SumLen(rawLogs.streams)
       /\ logs.Events = ExpectedLogEvents

\* two streams of one line each, the first line matching the marker and the
\* second not
C17_Witness ==
    /\ pc = "normalized"
    /\ rawLogs.shape = "ok"
    /\ Len(rawLogs.streams) = 2
    /\ Len(logs.Events) = 2
    /\ logs.Events[1].Message = MsgError
    /\ logs.Events[2].Message = MsgInfo
    /\ logs.ErrorCount = 1

\* C18: AnalyzeTraces gives a failure event for exactly the traces whose
\* status differs from the literal "ok" (compared as it stands, so that "OK"
\* and the empty status are failures) and none for a trace of status "ok";
\* the events stand in payload order, each with the start time of its trace,
\* and Failures is the number of these events.
C18_FailureIffStatusNotOk ==
    (pc = "normalized" /\ rawTraces.shape = "ok")
    => /\ traces.Events = ExpectedTraceEvents
       /\ Len(traces.Events) = Cardinality(FailedTraceIndexes)
       /\ traces.Failures = Len(traces.Events)

\* one trace of each status: ok, OK, empty, error
C18_Witness ==
    /\ pc = "normalized"
    /\ rawTraces.shape = "ok"
    /\ Len(rawTraces.traces) = 4
    /\ rawTraces.traces[1].status = "ok"
    /\ rawTraces.traces[2].status = "OK"
    /\ rawTraces.traces[3].status = ""
    /\ rawTraces.traces[4].status = "error"
    /\ traces.Failures = 3

\* C19: AnalyzeK8s gives a failure event for exactly the pods of phase
\* "Failed" and counts each of them once: BadPods is the number of these
\* pods and of the events, never more than the pods of the payload; a pod
\* of another phase (Running, Pending, Succeeded) gives no event and is not
\* counted.
C19_FailedPodsCountedOnce ==
    (pc = "normalized" /\ rawK8s.shape = "ok")
    => /\ k8s.Events = ExpectedK8sEvents
       /\ k8s.BadPods = Cardinality(FailedPodIndexes)
       /\ k8s.BadPods = Len(k8s.Events)
       /\ k8s.BadPods <= Len(rawK8s.items)

\* a running, a failed, a pending and a succeeded pod
C19_Witness ==
    /\ pc = "normalized"
    /\ rawK8s.shape = "ok"
    /\ Len(rawK8s.items) = 4
    /\ rawK8s.items[1].phase = "Running"
    /\ rawK8s.items[2].phase = "Failed"
    /\ rawK8s.items[3].phase = "Pending"
    /\ rawK8s.items[4].phase = "Succeeded"
    /\ k8s.BadPods = 1

\* C20: a pod whose status.phase is missing or is no known phase is taken as
\* healthy: it gives no event, does not change the count, raises no error
\* and no crash, and the pods after it are counted as usual.
C20_MissingOrUnknownPhaseIsHealthy ==
    (pc \in {"normalized", "panic"} /\ rawK8s.shape = "ok")
    => /\ pc = "normalized"
       /\ k8s.BadPods = Cardinality(FailedPodIndexes)
       /\ k8s.Events = ExpectedK8sEvents

\* the number a sample text denotes, in hundredths
SampleValue(sample) == IF sample = Sample05 THEN 50 ELSE 620

\* C21: for a metrics payload with a non-empty result vector the latency
\* of the MetricResult is the numeric sample of the first series, whatever
\* the later series hold; for an empty result vector AnalyzeMetrics returns
\* the zero MetricResult and does not fail.
C21_LatencyOfFirstSeries ==
    (pc \in {"normalized", "panic"} /\ rawMetrics.shape = "ok")
    => /\ Len(rawMetrics.result) = 0
          => (pc = "normalized" /\ metrics = ZeroMetricResult)
       /\ (Len(rawMetrics.result) > 0 /\ rawMetrics.result[1].shape = "ok")
          => /\ pc = "normalized"
             /\ metrics.Latency = SampleValue(rawMetrics.result[1].sample)

\* three series: the first holds 0.5, the second 6.2, the third no value
C21_Witness ==
    /\ pc = "normalized"
    /\ rawMetrics.shape = "ok"
    /\ Len(rawMetrics.result) = 3
    /\ rawMetrics.result[1].sample = Sample05
    /\ rawMetrics.result[2].sample = Sample62
    /\ rawMetrics.result[3].shape = "no_value"
    /\ metrics.Latency = 50

\* sources whose client has returned in this invocation
Fetched ==
    {s \in Sources :
        \/ s = "logs" /\ rawLogs.shape # "none"
        \/ s = "metrics" /\ rawMetrics.shape # "none"
        \/ s = "traces" /\ rawTraces.shape # "none"
        \/ s = "k8s" /\ rawK8s.shape # "none"}

\* C22: the timeline merge and the impact and severity computation start
\* only after all four sources are finished: when BuildIncident is about to
\* build the impact, and when it has returned, every source has been
\* fetched and analyzed, and the timeline holds the events of the finished
\* results, no more and no fewer.
C22_MergeAfterAllSources ==
    pc \in {"build", "done"}
    => /\ Fetched = Sources
       /\ pc = "done"
          => Len(incident.Timeline)
               = Len(logs.Events) + Len(traces.Events) + Len(k8s.Events)

\* an Incident whose timeline holds an event of the source analyzed last
C22_Witness ==
    /\ pc = "done"
    /\ Fetched = Sources
    /\ k8s.BadPods = 1
    /\ Len(incident.Timeline) = 1
    /\ incident.Timeline[1].Source = "k8s"

\* what belongs to the task of one source: its payload and its result
OwnState(s) ==
    CASE s = "logs" -> <<rawLogs, logs>>
      [] s = "metrics" -> <<rawMetrics, metrics>>
      [] s = "traces" -> <<rawTraces, traces>>
      [] s = "k8s" -> <<rawK8s, k8s>>

\* the result of source s is what its own payload alone determines
FromOwnPayload(s) ==
    CASE s = "logs" -> /\ logs.Events = ExpectedLogEvents
                       /\ logs.RootCause = FirstErrorLine
                       /\ logs.ErrorCount = Cardinality(ErrorLineIndexes)
      [] s = "metrics" -> /\ metrics.ErrorRate = 0
                          /\ metrics.Latency
                               = IF rawMetrics.result = <<>> THEN 0
                                 ELSE SampleValue(rawMetrics.result[1].sample)
      [] s = "traces" -> /\ traces.Events = ExpectedTraceEvents
                         /\ traces.Failures = Len(ExpectedTraceEvents)
      [] s = "k8s" -> /\ k8s.Events = ExpectedK8sEvents
                      /\ k8s.BadPods = Len(ExpectedK8sEvents)

C24_FetchedAndAnalyzedOnce ==
    [][\A s \in Sources :
          /\ pc = s => s \notin Fetched
          /\ pc \in Waiting \cup {"panic"} => pc' \notin Sources
          /\ (s \in Fetched /\ pc' \notin {"idle", "panic"})
             => OwnState(s)' = OwnState(s)]_vars

\* all four sources fetched and analyzed, the log result holding a root cause
C24_Witness ==
    /\ pc = "build"
    /\ Fetched = Sources
    /\ logs.ErrorCount = 1
    /\ traces.Failures = 1

\* C25: AnalyzeMetrics returns ErrorRate = 0 for every metrics payload, so
\* every Incident has Impact.ErrorRate = 0 and Impact.SLOAffected = FALSE,
\* its severity is never warning, and it is critical exactly when more than
\* three pods of the payload failed and healthy otherwise.
C25_ErrorRateAlwaysZero ==
    /\ pc \in {"traces", "k8s", "build", "done"} => metrics.ErrorRate = 0
    /\ pc = "done"
       => /\ incident.Impact.ErrorRate = 0
          /\ ~incident.Impact.SLOAffected
          /\ incident.Impact.BadPods = Cardinality(FailedPodIndexes)
          /\ incident.Severity # "warning"
          /\ incident.Severity
               = IF Cardinality(FailedPodIndexes) > 3 THEN "critical" ELSE "healthy"

\* four failed pods make the Incident critical
C25_Witness ==
    /\ pc = "done"
    /\ Cardinality(FailedPodIndexes) = 4
    /\ incident.Severity = "critical"
    /\ incident.Impact.ErrorRate = 0

\* C26: for every error rate and pod count impact and severity agree:
\* SLOAffected implies a severity of warning or critical, warning implies
\* SLOAffected, healthy implies that SLOAffected is false and BadPods is at
\* most 3; CalculateSLO says degraded exactly when SLOAffected is true, and
\* CalculateImpact gives the Impact that BuildIncident builds inline.
C26_ImpactAndSeverityAgree ==
    pc = "assessed"
    => /\ incident.Impact.SLOAffected
          => incident.Severity \in {"warning", "critical"}
       /\ incident.Severity = "warning" => incident.Impact.SLOAffected
       /\ incident.Severity = "healthy"
          => (~incident.Impact.SLOAffected /\ incident.Impact.BadPods <= 3)
       /\ sevOut = "degraded" <=> incident.Impact.SLOAffected
       /\ sevOut \in {"degraded", "healthy"}
       /\ sevIn = incident.Impact

\* the error rate exactly at the threshold 1.0, with no failed pod
C26_Witness ==
    /\ pc = "assessed"
    /\ metrics.ErrorRate = 100
    /\ k8s.BadPods = 0
    /\ ~incident.Impact.SLOAffected
    /\ sevOut = "healthy"
    /\ incident.Severity = "healthy"

\* C27: for every well-formed log payload the LogResult of AnalyzeLogs has
\* an empty RootCause exactly when ErrorCount is 0, an ErrorCount between 0
\* and the number of its events, and a RootCause that, when not empty, is
\* the message of one of its events and holds "error" in some casing.
C27_LogResultConsistent ==
    (pc = "normalized" /\ rawLogs.shape = "ok")
    => /\ logs.RootCause = <<>> <=> logs.ErrorCount = 0
       /\ logs.ErrorCount \in 0..Len(logs.Events)
       /\ logs.RootCause # <<>>
          => /\ \E i \in 1..Len(logs.Events) :
                   logs.Events[i].Message = logs.RootCause
             /\ HasMarkerAnyCase(logs.RootCause)

\* a line without the marker, then a line with the marker in mixed case
C27_Witness ==
    /\ pc = "normalized"
    /\ rawLogs.shape = "ok"
    /\ Len(logs.Events) = 2
    /\ logs.Events[1].Message = MsgInfo
    /\ logs.Events[2].Message = MsgMixed
    /\ logs.ErrorCount = 1
    /\ logs.RootCause = MsgMixed

\* C28: once disconnect() has run, on unmount, no WebSocket connection is
\* opened any more and no reconnect timer is pending: the close event that
\* disconnect's own ws.close() brings about schedules no reconnect, in
\* whatever order close event, timer and disconnect come.
C28_NoReconnectAfterDisconnect ==
    hook.mounted = "gone"
    => /\ ~hook.timer
       /\ hook.ws \notin {"connecting", "open"}

\* C29: reconnection is bounded.  The attempt counter never exceeds 10, it
\* is 0 after every open event, every socket made after the first is
\* counted by it (so at most 10 reconnects follow the last open), a close
\* event that finds the counter at 10 schedules no reconnect and sets
\* connectionError to "Max reconnection attempts reached", and isConnected
\* is true only from an open event to the next close event.
C29_ReconnectBounded ==
    [][/\ hook'.attempts <= maxReconnectAttempts
       /\ (hook.ws # "open" /\ hook'.ws = "open") => hook'.attempts = 0
       /\ (hook.mounted # "no" /\ hook.ws # "connecting"
              /\ hook'.ws = "connecting")
          => hook'.attempts = hook.attempts + 1
       /\ (hook.ws # "closed" /\ hook'.ws = "closed"
              /\ hook.attempts = maxReconnectAttempts)
          => (~hook'.timer /\ hook'.connectionError = ErrMaxAttempts)
       /\ hook'.isConnected => hook'.ws \in {"open", "closing", "failed"}
       /\ (hook.ws = "connecting" /\ hook'.ws = "open") => hook'.isConnected
       /\ hook'.ws = "closed" => ~hook'.isConnected]_vars

\* the tenth reconnect has failed
C29_Witness ==
    /\ hook.attempts = maxReconnectAttempts
    /\ hook.ws = "closed"
    /\ ~hook.timer
    /\ hook.connectionError = ErrMaxAttempts

\* messages the handler has no case for, or cannot parse
IgnoredMessages == {m \in Messages : m.type \in {"pong", "unknown", "unparsable"}}

\* C30: after any sequence of messages of any type recentLogs holds at most
\* 50 entries, a log that a message brings stands first after it, and a
\* message that cannot be parsed, a pong and a message of unknown type leave
\* currentPipeline, kubernetes and recentLogs as they were.
C30_RecentLogsCapped ==
    /\ Len(hook.recentLogs) <= RecentLogsCap
    /\ \A m \in Messages :
          m.log # "absent" => OnMessage(hook, m).recentLogs[1] = m.log
    /\ \A m \in IgnoredMessages :
          LET h == OnMessage(hook, m)
          IN /\ h.currentPipeline = hook.currentPipeline
             /\ h.kubernetes = hook.kubernetes
             /\ h.recentLogs = hook.recentLogs

===========================================================================
